---- MODULE Spec2Model ----
(***************************************************************************)
(* The Python plugin runner of kennel (pkg/sdk/python/module.py) as a      *)
(* state machine: ModuleRunner.run, the signal handler _handle_signal,     *)
(* command_loop and handle_command, driven by a Module (BaseModule, the    *)
(* example plugin, or an arbitrary subclass whose operations may raise).   *)
(*                                                                         *)
(* The runner is one Python thread.  A signal handler runs on top of that  *)
(* thread's stack between two bytecodes, and its sys.exit(0) raises        *)
(* SystemExit at the point where the thread was interrupted.  SystemExit   *)
(* is not an Exception, so "except Exception" clauses let it pass and      *)
(* "finally" blocks run while it propagates.                               *)
(*                                                                         *)
(* Environment assumptions: standard output stays writable; signals are    *)
(* considered from the moment run() has installed its handlers.            *)
(***************************************************************************)
EXTENDS Integers, Sequences, FiniteSets, TLC

\* Number of input lines the host sends before it closes the stream.
MaxLines == 2
\* Number of termination signals delivered to the process.
MaxSignals == 2
\* The clock of the SDK checks runs from 0 to MaxClock.
MaxClock == 3
\* The number of check_health calls the SDK checks observe.
MaxHealthCalls == 2

---------------------------------------------------------------------------
(* JSON values and Python dictionaries *)

\* A JSON object / Python dict holding the mapping f.
Dict(f) == [t |-> "dict", d |-> f]
\* A JSON value that is no object (a list).
NonDict == [t |-> "list"]
\* Python's None.
None == [t |-> "none"]
EmptyDict == Dict(<<>>)
IsDict(v) == v.t = "dict"
\* dict.get(k, default)
DictGet(f, k, default) == IF k \in DOMAIN f THEN f[k] ELSE default
\* Python truth value of None / dict / list values
Truthy(v) == IF v.t = "dict" THEN DOMAIN v.d # {} ELSE v.t # "none"
\* "v or {}"
OrEmptyDict(v) == IF Truthy(v) THEN v ELSE EmptyDict

\* str(e) of an exception, as the list of its text fragments (the source's
\* Chinese message texts are given in English).
AttributeErrorMsg(cls, attr) == <<"'", cls, "' object has no attribute '", attr, "'">>
JSONDecodeErrorMsg == <<"Expecting value: line 1 column 1 (char 0)">>
CustomErrorMsg == <<"handler failed">>
\* Outcome of a call: a returned value or a raised Exception.
Return(v) == [kind |-> "return", value |-> v]
Raise(msg) == [kind |-> "raise", msg |-> msg]

---------------------------------------------------------------------------
(* logger.py *)

\* A Logger that also answers to the name the standard library uses.
LoggerMethods_WithWarning == {"trace", "debug", "info", "warn", "warning", "error"}

\* The logging methods class Logger defines.
LoggerMethods == {"trace", "debug", "info", "warn", "error"}
\* Calling logger.<method>(...): an AttributeError when Logger has no such method.
LoggerCall(method) ==
    IF method \in LoggerMethods
    THEN Return(None)
    ELSE Raise(AttributeErrorMsg("Logger", method))

---------------------------------------------------------------------------
(* config.py: ConfigHelper.get_nested *)

\* A JSON string value.
Str(v) == [t |-> "str", v |-> v]

\* path.split("."): a text is the sequence of its characters, a key the
\* sequence of characters between two dots.
RECURSIVE SplitDot(_)
SplitDot(path) ==
    IF path = <<>> THEN << <<>> >>
    ELSE LET rest == SplitDot(Tail(path))
         IN  IF Head(path) = "."
             THEN << <<>> >> \o rest
             ELSE << <<Head(path)>> \o rest[1] >> \o Tail(rest)

\* The for loop of get_nested over the remaining keys.
RECURSIVE WalkKeys(_, _, _)
WalkKeys(current, keys, default_value) ==
    IF keys = <<>> THEN current
    ELSE IF IsDict(current) /\ Head(keys) \in DOMAIN current.d
         THEN WalkKeys(current.d[Head(keys)], Tail(keys), default_value)
         ELSE default_value

\* A lookup that takes the whole path as one key, without splitting it.
GetNested_Flat(config, path, default_value) ==
    WalkKeys(config, <<path>>, default_value)

\* ConfigHelper.get_nested(path, default_value) on self.config = config
GetNested(config, path, default_value) ==
    WalkKeys(config, SplitDot(path), default_value)

---------------------------------------------------------------------------
(* Request, Response, Event, HealthStatus *)

\* A from_dict that loses the request's id.
RequestFromDict_DropsId(data) ==
    [id       |-> "",
     action   |-> DictGet(data, "action", ""),
     params   |-> OrEmptyDict(DictGet(data, "params", EmptyDict)),
     metadata |-> EmptyDict]

\* Request.from_dict(data) on a dict; Request.__init__ applies "params or {}".
RequestFromDict(data) ==
    [id       |-> DictGet(data, "id", ""),
     action   |-> DictGet(data, "action", ""),
     params   |-> OrEmptyDict(DictGet(data, "params", EmptyDict)),
     metadata |-> EmptyDict]

\* Event.from_dict(data) on a dict.
EventFromDict(data) ==
    [id     |-> DictGet(data, "id", ""),
     type   |-> DictGet(data, "type", ""),
     source |-> DictGet(data, "source", "")]

\* Response.__init__: "data or {}", "metadata or {}"; error is kept as given.
Response(id, success, data, error) ==
    [id |-> id, success |-> success, data |-> OrEmptyDict(data),
     error |-> error, metadata |-> EmptyDict, serializable |-> TRUE]

\* Response.to_dict: the error key only when self.error is truthy.
ResponseToDict(r) ==
    LET base == [id |-> r.id, success |-> r.success, data |-> r.data,
                 metadata |-> r.metadata]
    IN  IF Truthy(r.error) THEN base @@ ("error" :> r.error) ELSE base

ErrorDict(code, message) == Dict("code" :> code @@ "message" :> message)

\* HealthStatus.to_dict
HealthToDict(h) == [status |-> h.status, details |-> h.details, timestamp |-> "now"]

---------------------------------------------------------------------------
(* The modules *)

\* BaseModule, ExamplePythonPlugin, and any other Module subclass.
Modules == {"BaseModule", "ExamplePythonPlugin", "Custom"}

\* BaseModule.handle_request
BaseHandleRequest(request) ==
    Return(Response(request.id, FALSE, None,
                    ErrorDict("not_implemented", <<"unimplemented action: ", request.action>>)))

\* ExamplePythonPlugin.handle_request
ExampleHandleRequest(request) ==
    IF request.action = "hello"
    THEN Return(Response(request.id, TRUE,
                         Dict("message" :> "Hello from Python!" @@ "timestamp" :> "now"),
                         None))
    ELSE IF request.action = "get_system_info"
    THEN Return(Response(request.id, TRUE,
                         Dict("platform" :> "platform" @@ "uptime" :> "uptime"), None))
    ELSE IF request.action = "echo"
    THEN IF IsDict(request.params)
         THEN Return(Response(request.id, TRUE,
                              Dict("message" :> DictGet(request.params.d, "message", "")
                                   @@ "timestamp" :> "now"),
                              None))
         ELSE Raise(AttributeErrorMsg(request.params.t, "get"))
    ELSE Return(Response(request.id, FALSE, None,
                         ErrorDict("unknown_action", <<"unknown action: ", request.action>>)))

\* A handle_request of some other subclass: it may raise, answer, answer with
\* another id, build its Response with success and error both given, or
\* return a Response json.dumps cannot encode.
CustomHandleRequest(request) ==
    { Raise(CustomErrorMsg),
      Return(Response(request.id, TRUE, Dict("result" :> "ok"), None)),
      Return(Response(request.id, TRUE, Dict("result" :> "ok"),
                      ErrorDict("partial", "degraded"))),
      Return(Response(request.id, FALSE, None, ErrorDict("failed", "no result"))),
      Return(Response("other-id", TRUE, Dict("result" :> "ok"), None)),
      Return([Response(request.id, TRUE, Dict("result" :> "ok"), None)
                 EXCEPT !.serializable = FALSE]) }

\* module.handle_request(request): the set of possible outcomes.
HandleRequest(m, request) ==
    IF m = "BaseModule" THEN {BaseHandleRequest(request)}
    ELSE IF m = "ExamplePythonPlugin" THEN {ExampleHandleRequest(request)}
    ELSE CustomHandleRequest(request)

\* BaseModule.handle_event
BaseHandleEvent(event) == Return(FALSE)

\* ExamplePythonPlugin.handle_event: the fall-through branch calls
\* self.logger.warning before it returns False.
ExampleHandleEvent(event) ==
    IF event.type \in {"system.startup", "system.shutdown"}
    THEN Return(TRUE)
    ELSE LET w == LoggerCall("warning")
         IN  IF w.kind = "raise" THEN w ELSE Return(FALSE)

\* module.handle_event(event): the set of possible outcomes.
HandleEvent(m, event) ==
    IF m = "BaseModule" THEN {BaseHandleEvent(event)}
    ELSE IF m = "ExamplePythonPlugin" THEN {ExampleHandleEvent(event)}
    ELSE {Raise(CustomErrorMsg), Return(TRUE), Return(FALSE)}

\* An uptime taken the wrong way round.
Uptime_Reversed(now, start) == start - now

\* time.time() - self.start_time
Uptime(now, start) == now - start

\* Module.check_health at time now of a module whose start_time is start.
HealthAt(now, start) ==
    [status |-> "healthy", details |-> [uptime |-> Uptime(now, start)]]

\* Module.check_health, inherited by BaseModule and the example plugin.
DefaultCheckHealth ==
    Return([status |-> "healthy", details |-> Dict("uptime" :> "uptime")])

\* module.check_health(): the set of possible outcomes.
CheckHealth(m) ==
    IF m = "Custom"
    THEN {Raise(CustomErrorMsg), DefaultCheckHealth,
          Return([status |-> "unhealthy", details |-> EmptyDict])}
    ELSE {DefaultCheckHealth}

\* Whether init, start, stop or get_info of module m can raise: those of
\* BaseModule and of the example plugin only log and assign.
MayRaise(m) == IF m = "Custom" THEN {FALSE, TRUE} ELSE {FALSE}

---------------------------------------------------------------------------
(* The input the host writes to the plugin's standard input *)

\* The text after "KENNEL_COMMAND:": either no JSON at all, or a JSON value.
NotJson == [json |-> FALSE]
Json(v) == [json |-> TRUE, value |-> v]
Envelope(type, data) == Dict("type" :> type @@ "data" :> data)

Ids == {"a", "b"}
RequestData ==
    { ("id" :> i @@ "action" :> a) :
          i \in Ids, a \in {"hello", "get_system_info", "echo", "reboot"} }
    \cup { ("id" :> "a" @@ "action" :> "echo" @@ "params" :> Dict("message" :> "hi")),
           ("id" :> "b" @@ "action" :> "echo" @@ "params" :> NonDict),
           ("action" :> "hello") }
EventData ==
    { ("id" :> i @@ "type" :> t @@ "source" :> "host") :
          i \in Ids, t \in {"system.startup", "system.shutdown", "custom.event"} }
    \cup { ("type" :> "system.startup") }

CommandTexts ==
    {NotJson, Json(NonDict), Json(EmptyDict)}
    \cup { Json(Envelope("request", Dict(d))) : d \in RequestData }
    \cup { Json(Envelope("event", Dict(d))) : d \in EventData }
    \cup { Json(Envelope("request", NonDict)), Json(Envelope("event", NonDict)),
           Json(Envelope("health_check", EmptyDict)), Json(Dict("type" :> "health_check")),
           Json(Envelope("foo", EmptyDict)) }

\* A line after strip(): its leading tag and the text that follows it.
Line(tag, rest) == [tag |-> tag, rest |-> rest]
BlankLine == Line("", NotJson)
StopLine == Line("KENNEL_STOP", NotJson)
OtherLine == Line("HELLO", NotJson)
CommandLine(text) == Line("KENNEL_COMMAND:", text)
InputLines == {BlankLine, StopLine, OtherLine} \cup { CommandLine(t) : t \in CommandTexts }

---------------------------------------------------------------------------
(* ModuleRunner.handle_command up to the call of the module's handler *)

\* A lenient parser that reads malformed text as an empty object.
JsonLoads_Lenient(text) == Return(IF text.json THEN text.value ELSE EmptyDict)

\* json.loads(command_json)
JsonLoads(text) == IF text.json THEN Return(text.value) ELSE Raise(JSONDecodeErrorMsg)

NoCall == [op |-> "none", arg |-> None]

\* Lines 351-373 without the handler calls: the handler to call and its
\* argument, or the exception raised on the way.  The else branch calls
\* self.logger.warning.
DecodeCommand(text) ==
    LET parsed == JsonLoads(text)
    IN  IF parsed.kind = "raise" THEN parsed
        ELSE LET command == parsed.value
             IN  IF ~IsDict(command) THEN Raise(AttributeErrorMsg(command.t, "get"))
                 ELSE LET command_type == DictGet(command.d, "type", "")
                          command_data == DictGet(command.d, "data", EmptyDict)
                      IN  IF command_type = "request"
                          THEN IF IsDict(command_data)
                               THEN Return([op |-> "handle_request",
                                            arg |-> RequestFromDict(command_data.d)])
                               ELSE Raise(AttributeErrorMsg(command_data.t, "get"))
                          ELSE IF command_type = "event"
                          THEN IF IsDict(command_data)
                               THEN Return([op |-> "handle_event",
                                            arg |-> EventFromDict(command_data.d)])
                               ELSE Raise(AttributeErrorMsg(command_data.t, "get"))
                          ELSE IF command_type = "health_check"
                          THEN Return([op |-> "check_health", arg |-> None])
                          ELSE LET w == LoggerCall("warning")
                               IN  IF w.kind = "raise" THEN w ELSE Return(NoCall)

\* The possible outcomes of the handler call of lines 359, 365, 370.
CallModule(m, call) ==
    IF call.op = "handle_request" THEN HandleRequest(m, call.arg)
    ELSE IF call.op = "handle_event" THEN HandleEvent(m, call.arg)
    ELSE CheckHealth(m)

\* An exception that is not caught in handle_command and unwinds the loop.
OnCommandException_Escapes == "finally"

\* Where control goes when an Exception is raised inside handle_command's
\* try block: the except clause, which sends an error frame.
OnCommandException == "send_error"

---------------------------------------------------------------------------
(* Output frames *)

\* send_response: json.dumps(response.to_dict()) raises TypeError for a value
\* it cannot encode.
SendResponse(response) ==
    IF response.serializable
    THEN Return([tag |-> "KENNEL_RESPONSE", body |-> ResponseToDict(response)])
    ELSE Raise(<<"Object of type ", "object", " is not JSON serializable">>)

\* send_event_response
SendEventResponse(event_id, success) ==
    Return([tag |-> "KENNEL_EVENT_RESPONSE",
            body |-> [event_id |-> event_id, success |-> success]])

\* send_health_response
SendHealthResponse(health) ==
    Return([tag |-> "KENNEL_HEALTH_RESPONSE", body |-> HealthToDict(health)])

\* send_error_response
SendErrorResponse(error) == [tag |-> "KENNEL_ERROR", body |-> [error |-> error]]

\* The send_* call that follows the handler in handle_command.
SendResult(call, value) ==
    IF call.op = "handle_request" THEN SendResponse(value)
    ELSE IF call.op = "handle_event" THEN SendEventResponse(call.arg.id, value)
    ELSE SendHealthResponse(value)

ReadyFrame == [tag |-> "KENNEL_PLUGIN_READY", body |-> [status |-> "ready"]]
PluginErrorFrame(error) ==
    [tag |-> "KENNEL_PLUGIN_ERROR", body |-> [status |-> "error", error |-> error]]
NoFrame == [tag |-> "", body |-> None]

---------------------------------------------------------------------------
(* The state of the process *)

VARIABLES
    module,       \* the Module subclass being run
    config_json,  \* the KENNEL_PLUGIN_CONFIG text
    config,       \* module.config
    pc,           \* where the main thread is in run / command_loop / handle_command
    installed,    \* whether _handle_signal is installed for SIGINT and SIGTERM
    handlers,     \* number of _handle_signal frames on the main thread's stack
    nsig,         \* number of signals delivered so far
    exc,          \* the BaseException propagating through the main thread
    startup,      \* how far startup got: created, initialized, started
    failed,       \* the startup step that raised, or "none"
    stdin,        \* the input stream: open, eof (closed by the host), error
    nread,        \* number of lines read
    cur,          \* the stripped line read last
    call,         \* the handler call decoded from cur
    res,          \* the outcome of that call
    err,          \* str(e) of the Exception being reported
    out,          \* the frames written to stdout: tag and number of the line answered
    last,         \* the frame written last, in full
    ops,          \* the module operations invoked, in order
    stopRaised,   \* whether some module.stop() raised
    exitCode      \* the exit status, -1 while the process runs

\* The SDK objects exercised on their own: a Module and its clock, a ConfigHelper.
VARIABLES
    clock,          \* time.time(), a non-decreasing integer clock
    start_time,     \* module.start_time
    module_started, \* whether module.start() has been called
    health,         \* the HealthStatus values check_health returned, in order
    helper_config,  \* config_helper.config
    nested          \* the last get_nested call: its arguments, keys and result

sdkvars == <<clock, start_time, module_started, health, helper_config, nested>>

runnervars == <<module, config_json, config, pc, installed, handlers, nsig, exc, startup,
                failed, stdin, nread, cur, call, res, err, out, last, ops, stopRaised,
                exitCode>>

vars == <<module, config_json, config, pc, installed, handlers, nsig, exc, startup,
          failed, stdin, nread, cur, call, res, err, out, last, ops, stopRaised,
          exitCode, clock, start_time, module_started, health, helper_config, nested>>

NoLookup == [path |-> <<>>, default_value |-> None, keys |-> <<>>, result |-> None]

NoResult == [kind |-> "none"]

StartupPcs == {"register", "parse_config", "init", "start", "ready", "enter_loop"}
\* The positions inside command_loop's try block (handle_command included).
LoopPcs == {"read", "classify", "decode", "call", "send", "send_error"}

\* An output that puts the newest frame in front of the older ones.
Emit_Prepends(frame) ==
    /\ out' = <<[tag |-> frame.tag, cmd |-> nread]>> \o out
    /\ last' = [tag |-> frame.tag, cmd |-> nread, body |-> frame.body]

\* print(frame); sys.stdout.flush()
Emit(frame) ==
    /\ out' = Append(out, [tag |-> frame.tag, cmd |-> nread])
    /\ last' = [tag |-> frame.tag, cmd |-> nread, body |-> frame.body]

\* A module operation is invoked.
Invoke(op, by) == ops' = Append(ops, [op |-> op, by |-> by, cmd |-> nread])

StopCalls == Cardinality({i \in DOMAIN ops : ops[i].op = "stop"})

\* The state of the process when run() is entered.
RunnerInit ==
    /\ module \in Modules
    /\ config_json \in {NotJson, Json(Dict("log_level" :> "debug"))}
    /\ config = EmptyDict
    /\ pc = "register"
    /\ installed = FALSE
    /\ handlers = 0
    /\ nsig = 0
    /\ exc = "none"
    /\ startup = "created"
    /\ failed = "none"
    /\ stdin = "open"
    /\ nread = 0
    /\ cur = BlankLine
    /\ call = NoCall
    /\ res = NoResult
    /\ err = <<>>
    /\ out = <<>>
    /\ last = [tag |-> "", cmd |-> 0, body |-> None]
    /\ ops = <<>>
    /\ stopRaised = FALSE
    /\ exitCode = -1

\* The SDK objects as the runner's module holds them after construction.
SdkIdle ==
    /\ clock = 0
    /\ start_time = 0
    /\ module_started = FALSE
    /\ health = <<>>
    /\ helper_config = EmptyDict
    /\ nested = NoLookup

Init == RunnerInit /\ SdkIdle

\* The main thread runs its own code only while no signal handler is on its stack.
Running == pc # "exited" /\ handlers = 0

---------------------------------------------------------------------------
(* ModuleRunner.run *)

\* signal.signal(SIGINT, ...); signal.signal(SIGTERM, ...)
RegisterSignals ==
    /\ Running /\ pc = "register"
    /\ installed' = TRUE
    /\ pc' = "parse_config"
    /\ UNCHANGED <<sdkvars, module, config_json, config, handlers, nsig, exc, startup, failed,
                   stdin, nread, cur, call, res, err, out, last, ops, stopRaised, exitCode>>

\* config = json.loads(config_json)
ParseConfig ==
    /\ Running /\ pc = "parse_config"
    /\ LET parsed == JsonLoads(config_json)
       IN  IF parsed.kind = "raise"
           THEN pc' = "except" /\ failed' = "config" /\ err' = parsed.msg
           ELSE pc' = "init" /\ UNCHANGED <<failed, err>>
    /\ UNCHANGED <<sdkvars, module, config_json, config, installed, handlers, nsig, exc, startup,
                   stdin, nread, cur, call, res, out, last, ops, stopRaised, exitCode>>

\* self.module.init(config)
ModuleInit ==
    /\ Running /\ pc = "init"
    /\ Invoke("init", "run")
    /\ \E raised \in MayRaise(module) :
          IF raised
          THEN pc' = "except" /\ failed' = "init" /\ err' = CustomErrorMsg
               /\ UNCHANGED <<config, startup>>
          ELSE pc' = "start" /\ startup' = "initialized"
               /\ config' = JsonLoads(config_json).value
               /\ UNCHANGED <<failed, err>>
    /\ UNCHANGED <<sdkvars, module, config_json, installed, handlers, nsig, exc, stdin, nread,
                   cur, call, res, out, last, stopRaised, exitCode>>

\* self.module.start()
ModuleStart ==
    /\ Running /\ pc = "start"
    /\ Invoke("start", "run")
    /\ \E raised \in MayRaise(module) :
          IF raised
          THEN pc' = "except" /\ failed' = "start" /\ err' = CustomErrorMsg
               /\ UNCHANGED startup
          ELSE pc' = "ready" /\ startup' = "started" /\ UNCHANGED <<failed, err>>
    /\ UNCHANGED <<sdkvars, module, config_json, config, installed, handlers, nsig, exc, stdin,
                   nread, cur, call, res, out, last, stopRaised, exitCode>>

\* self.module.get_info().to_dict(); print("KENNEL_PLUGIN_READY:...")
EmitReady ==
    /\ Running /\ pc = "ready"
    /\ Invoke("get_info", "run")
    /\ \E raised \in MayRaise(module) :
          IF raised
          THEN pc' = "except" /\ failed' = "get_info" /\ err' = CustomErrorMsg
               /\ UNCHANGED <<out, last>>
          ELSE pc' = "enter_loop" /\ Emit(ReadyFrame) /\ UNCHANGED <<failed, err>>
    /\ UNCHANGED <<sdkvars, module, config_json, config, installed, handlers, nsig, exc, startup,
                   stdin, nread, cur, call, res, stopRaised, exitCode>>

\* The except clause of run: print("KENNEL_PLUGIN_ERROR:...")
ReportStartupError ==
    /\ Running /\ pc = "except"
    /\ Emit(PluginErrorFrame(err))
    /\ pc' = "exit1"
    /\ UNCHANGED <<sdkvars, module, config_json, config, installed, handlers, nsig, exc, startup,
                   failed, stdin, nread, cur, call, res, err, ops, stopRaised, exitCode>>

\* sys.exit(1)
ExitFailure ==
    /\ Running /\ pc = "exit1"
    /\ pc' = "exited"
    /\ exitCode' = 1
    /\ UNCHANGED <<sdkvars, module, config_json, config, installed, handlers, nsig, exc, startup,
                   failed, stdin, nread, cur, call, res, err, out, last, ops, stopRaised>>

---------------------------------------------------------------------------
(* ModuleRunner.command_loop and handle_command *)

\* A command_loop whose failure reaches the except clause of run.
EnterLoop_Fails ==
    /\ Running /\ pc = "enter_loop"
    /\ pc' = "except" /\ failed' = "loop" /\ err' = CustomErrorMsg
    /\ UNCHANGED <<sdkvars, module, config_json, config, installed, handlers, nsig, exc, startup,
                   stdin, nread, cur, call, res, out, last, ops, stopRaised, exitCode>>

\* self.logger.info(...) before the try block of command_loop
EnterLoop ==
    /\ Running /\ pc = "enter_loop"
    /\ pc' = "read"
    /\ UNCHANGED <<sdkvars, module, config_json, config, installed, handlers, nsig, exc, startup,
                   failed, stdin, nread, cur, call, res, err, out, last, ops, stopRaised,
                   exitCode>>

\* line = sys.stdin.readline().strip(): the next line of the host, "" once the
\* host has closed the stream, or an I/O error, which command_loop's
\* "except Exception" logs before the finally block runs.
ReadLine ==
    /\ Running /\ pc = "read"
    /\ \/ /\ stdin = "open" /\ nread < MaxLines
          /\ \E line \in InputLines : cur' = line
          /\ nread' = nread + 1
          /\ pc' = "classify"
          /\ UNCHANGED stdin
       \/ /\ stdin' = "eof"
          /\ cur' = BlankLine
          /\ pc' = "classify"
          /\ UNCHANGED nread
       \/ /\ stdin' = "error"
          /\ pc' = "finally"
          /\ UNCHANGED <<cur, nread>>
    /\ call' = NoCall /\ res' = NoResult /\ err' = <<>>
    /\ UNCHANGED <<sdkvars, module, config_json, config, installed, handlers, nsig, exc, startup,
                   failed, out, last, ops, stopRaised, exitCode>>

\* A loop that reports a line it does not recognise as an error.
ClassifyLine_Strict(line) ==
    IF line.tag = "" THEN "read"
    ELSE IF line.tag = "KENNEL_COMMAND:" THEN "decode"
    ELSE IF line.tag = "KENNEL_STOP" THEN "finally"
    ELSE "send_error"

\* Lines 324-333: where the loop goes with the stripped line.
ClassifyLine(line) ==
    IF line.tag = "" THEN "read"
    ELSE IF line.tag = "KENNEL_COMMAND:" THEN "decode"
    ELSE IF line.tag = "KENNEL_STOP" THEN "finally"
    ELSE "read"

Classify ==
    /\ Running /\ pc = "classify"
    /\ pc' = ClassifyLine(cur)
    /\ UNCHANGED <<sdkvars, module, config_json, config, installed, handlers, nsig, exc, startup,
                   failed, stdin, nread, cur, call, res, err, out, last, ops, stopRaised,
                   exitCode>>

\* handle_command, lines 351-358 / 363-364 / 369 / 373
Decode ==
    /\ Running /\ pc = "decode"
    /\ LET d == DecodeCommand(cur.rest)
       IN  IF d.kind = "raise"
           THEN pc' = OnCommandException /\ err' = d.msg /\ UNCHANGED call
           ELSE IF d.value.op = "none"
           THEN pc' = "read" /\ UNCHANGED <<call, err>>
           ELSE pc' = "call" /\ call' = d.value /\ UNCHANGED err
    /\ UNCHANGED <<sdkvars, module, config_json, config, installed, handlers, nsig, exc, startup,
                   failed, stdin, nread, cur, res, out, last, ops, stopRaised, exitCode>>

\* handle_command, lines 359 / 365 / 370: the module's handler runs
CallHandler ==
    /\ Running /\ pc = "call"
    /\ Invoke(call.op, "loop")
    /\ \E r \in CallModule(module, call) :
          /\ res' = r
          /\ IF r.kind = "raise"
             THEN pc' = OnCommandException /\ err' = r.msg
             ELSE pc' = "send" /\ UNCHANGED err
    /\ UNCHANGED <<sdkvars, module, config_json, config, installed, handlers, nsig, exc, startup,
                   failed, stdin, nread, cur, call, out, last, stopRaised, exitCode>>

\* handle_command, lines 360 / 366 / 371: the result is encoded and written
Send ==
    /\ Running /\ pc = "send"
    /\ LET s == SendResult(call, res.value)
       IN  IF s.kind = "raise"
           THEN pc' = OnCommandException /\ err' = s.msg /\ UNCHANGED <<out, last>>
           ELSE pc' = "read" /\ Emit(s.value) /\ UNCHANGED err
    /\ UNCHANGED <<sdkvars, module, config_json, config, installed, handlers, nsig, exc, startup,
                   failed, stdin, nread, cur, call, res, ops, stopRaised, exitCode>>

\* handle_command, lines 374-377: self.send_error_response(str(e))
SendError ==
    /\ Running /\ pc = "send_error"
    /\ Emit(SendErrorResponse(err))
    /\ pc' = "read"
    /\ UNCHANGED <<sdkvars, module, config_json, config, installed, handlers, nsig, exc, startup,
                   failed, stdin, nread, cur, call, res, err, ops, stopRaised, exitCode>>

\* The finally block of command_loop: self.module.stop() is called
LoopStop ==
    /\ Running /\ pc = "finally"
    /\ Invoke("stop", "loop")
    /\ pc' = "in_stop"
    /\ UNCHANGED <<sdkvars, module, config_json, config, installed, handlers, nsig, exc, startup,
                   failed, stdin, nread, cur, call, res, err, out, last, stopRaised,
                   exitCode>>

\* That stop() returns, or raises an Exception the finally block logs.  Then
\* command_loop and run return, or the pending SystemExit(0) goes on: the
\* process exits with status 0 either way.
LoopStopReturn ==
    /\ Running /\ pc = "in_stop"
    /\ \E raised \in MayRaise(module) : stopRaised' = (stopRaised \/ raised)
    /\ pc' = "exited"
    /\ exitCode' = 0
    /\ UNCHANGED <<sdkvars, module, config_json, config, installed, handlers, nsig, exc, startup,
                   failed, stdin, nread, cur, call, res, err, out, last, ops>>

---------------------------------------------------------------------------
(* ModuleRunner._handle_signal *)

\* SIGINT or SIGTERM is delivered: the handler starts on top of whatever the
\* main thread is doing (another handler included) and calls module.stop().
Signal ==
    /\ installed /\ pc # "exited"
    /\ nsig < MaxSignals
    /\ nsig' = nsig + 1
    /\ handlers' = handlers + 1
    /\ Invoke("stop", "signal")
    /\ UNCHANGED <<sdkvars, module, config_json, config, pc, installed, exc, startup, failed,
                   stdin, nread, cur, call, res, err, out, last, stopRaised, exitCode>>

\* A run whose except clause also catches the SystemExit of the handler.
UnwindTarget_CaughtByRun(p) == IF p \in LoopPcs THEN "finally" ELSE "except"

\* A signal handler that returns to the interrupted code instead of exiting.
UnwindTarget_Resumes(p) == p

\* Where a SystemExit raised at position p of the main thread leaves it: inside
\* command_loop's try block the finally block runs first; everywhere else
\* nothing catches it and the process exits.
UnwindTarget(p) == IF p \in LoopPcs THEN "finally" ELSE "exited"

\* The handler's stop() returns (or raises, which the handler logs), and
\* sys.exit(0) raises SystemExit: it passes the "except Exception" of every
\* handler frame below and unwinds the main thread.
HandlerExit ==
    /\ handlers > 0 /\ pc # "exited"
    /\ \E raised \in MayRaise(module) : stopRaised' = (stopRaised \/ raised)
    /\ handlers' = 0
    /\ exc' = "SystemExit"
    /\ pc' = UnwindTarget(pc)
    /\ exitCode' = IF UnwindTarget(pc) = "exited" THEN 0 ELSE exitCode
    /\ UNCHANGED <<sdkvars, module, config_json, config, installed, nsig, startup, failed, stdin,
                   nread, cur, call, res, err, out, last, ops>>

---------------------------------------------------------------------------

\* The steps of the Python thread itself.
ThreadNext ==
    \/ RegisterSignals \/ ParseConfig \/ ModuleInit \/ ModuleStart \/ EmitReady
    \/ ReportStartupError \/ ExitFailure
    \/ EnterLoop \/ ReadLine \/ Classify \/ Decode \/ CallHandler \/ Send \/ SendError
    \/ LoopStop \/ LoopStopReturn
    \/ HandlerExit

Next == ThreadNext \/ Signal

Spec == Init /\ [][Next]_vars

\* The interpreter keeps executing the thread; the host is assumed to send a
\* line or close the stream whenever the runner waits for input.  No signal
\* is ever required to arrive.
FairSpec == Spec /\ WF_vars(ThreadNext)

---------------------------------------------------------------------------
(* The SDK objects on their own: Module.start / check_health, ConfigHelper *)

\* Configurations a ConfigHelper is built on; a key is its sequence of characters.
HelperConfigs ==
    { EmptyDict,
      Dict(<<"a">> :> Dict(<<"b">> :> Str("x") @@ <<"c">> :> None) @@ <<"d">> :> Str("y")),
      Dict(<<"a">> :> Str("x")),
      Dict(<<>> :> Dict(<<"a">> :> Str("z"))),
      NonDict }
\* Paths: a, a.b, a.c, a.b.c, d, e, the empty path, "a.", ".a", a.e.b
Paths ==
    { <<"a">>, <<"a", ".", "b">>, <<"a", ".", "c">>, <<"a", ".", "b", ".", "c">>,
      <<"d">>, <<"e">>, <<>>, <<"a", ".">>, <<".", "a">>, <<"a", ".", "e", ".", "b">> }
Defaults == {None, Str("dflt")}

\* Module.__init__ at some time, ConfigHelper.__init__ on some configuration.
SdkInit ==
    /\ RunnerInit /\ module = "BaseModule" /\ config_json = NotJson
    /\ clock \in 0..1
    /\ start_time = clock
    /\ module_started = FALSE
    /\ health = <<>>
    /\ helper_config \in HelperConfigs
    /\ nested = NoLookup

\* Time passes.
Tick ==
    /\ clock < MaxClock
    /\ clock' = clock + 1
    /\ UNCHANGED <<runnervars, start_time, module_started, health, helper_config, nested>>

\* Module.start: self.start_time = time.time(); the start() of a subclass
\* that does not call it leaves the start_time __init__ has set.
SdkStart ==
    /\ ~module_started
    /\ start_time' \in {clock, start_time}
    /\ module_started' = TRUE
    /\ UNCHANGED <<runnervars, clock, health, helper_config, nested>>

\* Module.check_health on the started module
SdkCheckHealth ==
    /\ module_started /\ Len(health) < MaxHealthCalls
    /\ health' = Append(health, HealthAt(clock, start_time))
    /\ UNCHANGED <<runnervars, clock, start_time, module_started, helper_config, nested>>

\* config_helper.get_nested(path, default_value)
SdkGetNested ==
    /\ \E path \in Paths, d \in Defaults :
          nested' = [path |-> path, default_value |-> d, keys |-> SplitDot(path),
                     result |-> GetNested(helper_config, path, d)]
    /\ UNCHANGED <<runnervars, clock, start_time, module_started, health, helper_config>>

SdkNext == Tick \/ SdkStart \/ SdkCheckHealth \/ SdkGetNested

SdkSpec == SdkInit /\ [][SdkNext]_vars

---------------------------------------------------------------------------
(* Vocabulary of the properties *)

HandlerOps == {"handle_request", "handle_event", "check_health"}
\* The frames written in answer to line n (0: written by run itself).
FramesFor(n) == SelectSeq(out, LAMBDA f : f.cmd = n)
FramesTagged(tag) == SelectSeq(out, LAMBDA f : f.tag = tag)
\* The handler invocations made for line n.
HandlerCallsFor(n) ==
    Cardinality({i \in DOMAIN ops : ops[i].cmd = n /\ ops[i].op \in HandlerOps})
\* This step is taken by the thread's own code, not by a signal handler.
ThreadStep == handlers = 0 /\ handlers' = 0 /\ nsig' = nsig
\* handle_command has returned for the line read last.
Dispatched == pc = "read" /\ cur.tag = "KENNEL_COMMAND:"

IsEnvelope(line) ==
    line.tag = "KENNEL_COMMAND:" /\ line.rest.json /\ IsDict(line.rest.value)
EnvelopeType(line) == DictGet(line.rest.value.d, "type", "")
EnvelopeData(line) == DictGet(line.rest.value.d, "data", EmptyDict)
\* A request envelope of the Request shape: data is an object with an id, and
\* params, when given, is an object.
WellFormedRequest(line) ==
    /\ IsEnvelope(line)
    /\ EnvelopeType(line) = "request"
    /\ IsDict(EnvelopeData(line))
    /\ "id" \in DOMAIN EnvelopeData(line).d
    /\ IsDict(DictGet(EnvelopeData(line).d, "params", EmptyDict))
\* An event envelope whose data is an object.
WellFormedEvent(line) ==
    /\ IsEnvelope(line)
    /\ EnvelopeType(line) = "event"
    /\ IsDict(EnvelopeData(line))
NotJsonCommand(line) == line.tag = "KENNEL_COMMAND:" /\ ~line.rest.json
\* The text msg contains the word s.
Names(msg, s) == \E i \in DOMAIN msg : msg[i] = s
ShippedModules == {"BaseModule", "ExamplePythonPlugin"}

---------------------------------------------------------------------------
(* C1 *)

\* C1: module.stop() is executed at most once per process lifetime, whichever
\* shutdown trigger fires first and wherever a signal is delivered.
C1_StopAtMostOnce == StopCalls <= 1

---------------------------------------------------------------------------
(* C2 *)

\* C2: once the host has closed the input stream of a started module, the
\* runner eventually leaves the read loop, has executed stop() exactly once
\* and the process has exited with code 0.
C2_EofLeadsToExit ==
    (stdin = "eof" /\ startup = "started")
        ~> (pc = "exited" /\ StopCalls = 1 /\ exitCode = 0)

---------------------------------------------------------------------------
(* C3 *)

\* C3: after the line KENNEL_STOP has been read no frame is written, and the
\* process ends with stop() invoked once and exit code 0.
C3_StopLineStopsOnce ==
    cur = StopLine =>
        /\ FramesFor(nread) = <<>>
        /\ pc = "exited" => (StopCalls = 1 /\ exitCode = 0)

---------------------------------------------------------------------------
(* C4 *)

\* C4: when configuration parsing, init() or start() raised, the process
\* never enters the command loop and ends with exactly one
\* KENNEL_PLUGIN_ERROR frame, no KENNEL_PLUGIN_READY frame, exit code 1 and
\* stop() never called.
C4_StartupFailure ==
    failed \in {"config", "init", "start"} =>
        /\ pc \in {"except", "exit1", "exited"}
        /\ pc = "exited" =>
              /\ Len(FramesTagged("KENNEL_PLUGIN_ERROR")) = 1
              /\ Len(FramesTagged("KENNEL_PLUGIN_READY")) = 0
              /\ exitCode = 1
              /\ StopCalls = 0

---------------------------------------------------------------------------
(* C5 *)

\* C5: for a well-formed request envelope with id X run by BaseModule or the
\* example plugin, every frame written for the command is a KENNEL_RESPONSE
\* whose id is X, there is never more than one, and there is exactly one
\* once handle_command has returned.
C5_ResponseEchoesId ==
    (WellFormedRequest(cur) /\ module \in ShippedModules) =>
        /\ Len(FramesFor(nread)) <= 1
        /\ \A i \in DOMAIN out :
              out[i].cmd = nread =>
                 /\ out[i].tag = "KENNEL_RESPONSE"
                 /\ last.cmd = nread
                 /\ last.body.id = EnvelopeData(cur).d["id"]
        /\ Dispatched => Len(FramesFor(nread)) = 1

\* The example plugin has answered an echo request with id "b" on the second line.
C5_Witness ==
    /\ Dispatched /\ WellFormedRequest(cur) /\ module = "ExamplePythonPlugin"
    /\ nread = 2
    /\ EnvelopeData(cur).d["id"] = "b" /\ EnvelopeData(cur).d["action"] = "echo"
    /\ last.tag = "KENNEL_RESPONSE" /\ last.cmd = 2 /\ last.body.id = "b"

---------------------------------------------------------------------------
(* C6 *)

---------------------------------------------------------------------------
(* C7 *)

C7_Answered ==
    NotJsonCommand(cur) =>
        /\ HandlerCallsFor(nread) = 0
        /\ Len(FramesFor(nread)) <= 1
        /\ Dispatched =>
              /\ FramesFor(nread) = <<[tag |-> "KENNEL_ERROR", cmd |-> nread]>>
              /\ last.body.error = JSONDecodeErrorMsg
C7_Step ==
    (NotJsonCommand(cur) /\ ThreadStep) =>
        /\ pc = "decode" => (pc' = "send_error" /\ ops' = ops /\ out' = out)
        /\ pc = "send_error" => (pc' = "read" /\ ops' = ops /\ exitCode' = -1)

\* C7: a KENNEL_COMMAND line that is not JSON is answered by exactly one
\* KENNEL_ERROR frame; no module handler and no stop() is invoked for it, and
\* handle_command returns to the read loop, which reads the next line.
C7_MalformedJson == []C7_Answered /\ [][C7_Step]_vars

\* The first line was not JSON: its error frame is written, nothing was invoked
\* but init, start and get_info, and the loop is about to read the next line.
C7_Witness ==
    /\ Dispatched /\ NotJsonCommand(cur) /\ nread = 1 /\ handlers = 0
    /\ out = <<[tag |-> "KENNEL_PLUGIN_READY", cmd |-> 0],
               [tag |-> "KENNEL_ERROR", cmd |-> 1]>>
    /\ Len(ops) = 3
    /\ stdin = "open" /\ ENABLED ReadLine

---------------------------------------------------------------------------
(* C8 *)

\* C8: a command envelope of type "foo" is answered by exactly one
\* KENNEL_ERROR frame whose message names the type, and no handler is invoked.
C8_UnknownTypeNamed ==
    (Dispatched /\ IsEnvelope(cur) /\ EnvelopeType(cur) = "foo") =>
        /\ FramesFor(nread) = <<[tag |-> "KENNEL_ERROR", cmd |-> nread]>>
        /\ HandlerCallsFor(nread) = 0
        /\ Names(last.body.error, EnvelopeType(cur))

---------------------------------------------------------------------------
(* C9 *)

C9_Answered ==
    res.kind = "raise" =>
        /\ Len(FramesFor(nread)) <= 1
        /\ HandlerCallsFor(nread) = 1
        /\ Dispatched =>
              /\ FramesFor(nread) = <<[tag |-> "KENNEL_ERROR", cmd |-> nread]>>
              /\ last.body.error = res.msg
C9_Step ==
    ThreadStep =>
        /\ (pc = "call" /\ res'.kind = "raise") =>
              (pc' = "send_error" /\ exitCode' = -1 /\ out' = out /\ StopCalls' = StopCalls)
        /\ (pc = "send_error" /\ res.kind = "raise") =>
              (pc' = "read" /\ exitCode' = -1 /\ ops' = ops)

\* C9: an exception raised by handle_request, handle_event or check_health is
\* caught in handle_command and answered by exactly one KENNEL_ERROR frame
\* carrying its text; handling it invokes no stop(), does not end the process
\* and returns to the read loop.
C9_HandlerException == []C9_Answered /\ [][C9_Step]_vars

\* check_health of a custom module raised on the first line and was answered.
C9_Witness ==
    /\ Dispatched /\ module = "Custom" /\ call.op = "check_health"
    /\ res.kind = "raise" /\ nread = 1 /\ handlers = 0
    /\ last.tag = "KENNEL_ERROR" /\ last.body.error = CustomErrorMsg
    /\ StopCalls = 0 /\ ENABLED ReadLine

---------------------------------------------------------------------------
(* C10 *)

\* C10: the exit code is 1 exactly when startup failed and 0 on every other
\* shutdown path, whatever second trigger fires after the first.
C10_ExitCode == pc = "exited" => (exitCode = 1 <=> failed # "none")

---------------------------------------------------------------------------
(* C11 *)

\* The operation invoked by this step, if it is a handler of the module.
HandlerInvoked ==
    /\ Len(ops') = Len(ops) + 1
    /\ ops'[Len(ops')].op \in HandlerOps
C11_Ordered ==
    /\ \A i, j \in DOMAIN out : i < j => out[i].cmd <= out[j].cmd
    /\ \A i \in DOMAIN out : out[i].cmd <= nread
    /\ \A i \in DOMAIN ops : ops[i].op \in HandlerOps => ops[i].cmd \in 1..nread
C11_Step ==
    /\ nread' # nread =>
          (nread' = nread + 1 /\ pc = "read" /\ handlers = 0 /\ out' = out /\ ops' = ops)
    /\ out' # out =>
          /\ \E f \in {[tag |-> last'.tag, cmd |-> nread]} : out' = Append(out, f)
          /\ nread' = nread
          /\ nread >= 1 => (cur.tag = "KENNEL_COMMAND:" /\ pc \in {"send", "send_error"})
    /\ HandlerInvoked =>
          /\ ops'[Len(ops')].cmd = nread /\ nread' = nread
          /\ pc = "call" /\ pc' \in {"send", "send_error"}
          /\ HandlerCallsFor(nread) = 0 /\ FramesFor(nread) = <<>>

\* C11: frames appear in the order in which their command lines were read: a
\* frame is appended for the line read last and before the next line is read,
\* a line is read only while handle_command is not running, and the handler
\* for a line runs once, for the line read last, before that line's frame.
C11_FramesInReadOrder == []C11_Ordered /\ [][C11_Step]_vars

\* Two commands were read and answered one after the other.
C11_Witness ==
    /\ nread = 2 /\ Dispatched
    /\ Len(out) = 3 /\ out[1].cmd = 0 /\ out[2].cmd = 1 /\ out[3].cmd = 2
    /\ HandlerCallsFor(1) = 1 /\ HandlerCallsFor(2) = 1

---------------------------------------------------------------------------
(* C12 *)

C12_Ops ==
    \A i \in DOMAIN ops :
        ops[i].op \in HandlerOps =>
            /\ \E j \in 1..(i - 1) : ops[j].op = "start"
            /\ \A j \in 1..(i - 1) : ops[j].op # "stop"
C12_Step ==
    HandlerInvoked => (startup = "started" /\ StopCalls = 0 /\ handlers = 0)

\* C12: handle_request, handle_event and check_health are invoked only after
\* start() returned normally and never once some stop() has been invoked.
C12_HandlersOnlyWhileStarted == []C12_Ops /\ [][C12_Step]_vars

\* A handler ran for the first line, and a signal then had stop() invoked
\* while the second line was being dispatched.
C12_Witness ==
    /\ HandlerCallsFor(1) = 1 /\ nread = 2 /\ cur.tag = "KENNEL_COMMAND:"
    /\ StopCalls >= 1 /\ pc \in {"finally", "in_stop", "exited"}

---------------------------------------------------------------------------
(* C13 *)

\* The number of invocations of the module operation op.
Calls(op) == Cardinality({i \in DOMAIN ops : ops[i].op = op})

\* C13: init() is called once, with the parsed configuration and before any
\* other module operation; start() is called once, only after init() returned
\* normally, and never when configuration parsing or init() failed.
C13_InitThenStart ==
    /\ Calls("init") <= 1 /\ Calls("start") <= 1
    /\ ops # <<>> => ops[1].op = "init"
    /\ \A i \in DOMAIN ops :
          ops[i].op = "start" =>
              (startup # "created" /\ \E j \in 1..(i - 1) : ops[j].op = "init")
    /\ failed \in {"config", "init"} => Calls("start") = 0
    /\ startup # "created" => config = JsonLoads(config_json).value
    /\ pc \in LoopPcs => (Calls("init") = 1 /\ Calls("start") = 1)

---------------------------------------------------------------------------
(* C14 *)

CommandFrameTags ==
    {"KENNEL_RESPONSE", "KENNEL_EVENT_RESPONSE", "KENNEL_HEALTH_RESPONSE", "KENNEL_ERROR"}

\* C14: KENNEL_PLUGIN_READY is written at most once, only after init() and
\* start() returned normally, and before every command frame; it has been
\* written once whenever the loop runs; KENNEL_PLUGIN_ERROR is written at most
\* once; no run writes both.
C14_ReadyOnce ==
    /\ Len(FramesTagged("KENNEL_PLUGIN_READY")) <= 1
    /\ Len(FramesTagged("KENNEL_PLUGIN_ERROR")) <= 1
    /\ FramesTagged("KENNEL_PLUGIN_READY") # <<>> =>
          /\ out[1].tag = "KENNEL_PLUGIN_READY"
          /\ startup = "started" /\ Calls("init") = 1 /\ Calls("start") = 1
          /\ FramesTagged("KENNEL_PLUGIN_ERROR") = <<>>
    /\ \A i \in DOMAIN out :
          out[i].tag \in CommandFrameTags =>
              \E j \in 1..(i - 1) : out[j].tag = "KENNEL_PLUGIN_READY"
    /\ pc \in LoopPcs => Len(FramesTagged("KENNEL_PLUGIN_READY")) = 1

\* The run wrote the readiness frame, answered a command and ended.
C14_Witness ==
    /\ pc = "exited" /\ Len(out) = 2
    /\ out[1].tag = "KENNEL_PLUGIN_READY" /\ out[2].tag \in CommandFrameTags

---------------------------------------------------------------------------
(* C15 *)

\* A line that is blank or carries neither KENNEL_STOP nor the command prefix.
SkippedLine(line) == line.tag \notin {"KENNEL_COMMAND:", "KENNEL_STOP"}
C15_Nothing ==
    (SkippedLine(cur) /\ nread >= 1 /\ stdin = "open" /\ pc \in {"classify", "read"}) =>
        /\ FramesFor(nread) = <<>>
        /\ \A i \in DOMAIN ops : ops[i].cmd = nread => ops[i].by = "signal"
C15_Step ==
    (ThreadStep /\ pc = "classify" /\ SkippedLine(cur)) =>
        /\ pc' = "read"
        /\ out' = out /\ ops' = ops /\ startup' = startup /\ config' = config
        /\ exitCode' = -1 /\ nread' = nread /\ stdin' = stdin

\* C15: a line that is blank, or neither KENNEL_STOP nor a KENNEL_COMMAND
\* line, writes no frame, invokes no module operation, leaves the lifecycle
\* state as it is, and the loop returns to read the next line.
C15_SkippedSilently == []C15_Nothing /\ [][C15_Step]_vars

\* The first line was unrecognised; only the readiness frame has been written
\* and the loop is about to read again.
C15_Witness ==
    /\ cur = OtherLine /\ nread = 1 /\ pc = "read" /\ handlers = 0 /\ stdin = "open"
    /\ out = <<[tag |-> "KENNEL_PLUGIN_READY", cmd |-> 0]>>
    /\ Len(ops) = 3 /\ startup = "started"
    /\ ENABLED ReadLine

---------------------------------------------------------------------------
(* C16 *)

\* C16: in every KENNEL_RESPONSE frame the error field is present only when
\* success is false; a frame with success = true carries exactly id, success,
\* data and metadata; data and error are never both populated.
C16_ErrorOnlyOnFailure ==
    last.tag = "KENNEL_RESPONSE" =>
        /\ "error" \in DOMAIN last.body => ~last.body.success
        /\ last.body.success => DOMAIN last.body = {"id", "success", "data", "metadata"}
        /\ ~(Truthy(last.body.data) /\ "error" \in DOMAIN last.body)

---------------------------------------------------------------------------
(* C17 *)

\* C17: every check_health of the started module reports status "healthy"
\* and an uptime that is not negative, and the uptimes of successive calls
\* never decrease.
C17_UptimeMonotone ==
    /\ \A i \in DOMAIN health :
          health[i].status = "healthy" /\ health[i].details.uptime >= 0
    /\ \A i, j \in DOMAIN health :
          i < j => health[i].details.uptime <= health[j].details.uptime

\* A module started after time 0 was checked twice, the clock moving in between.
C17_Witness ==
    /\ module_started /\ start_time > 0 /\ Len(health) = 2
    /\ health[1].details.uptime = 1 /\ health[2].details.uptime = 2

---------------------------------------------------------------------------
(* C18 *)

Missing == [t |-> "missing"]
\* The value reached from the root by the first i keys, Missing once a key is
\* absent or its parent is no mapping.
RECURSIVE Reach(_, _, _)
Reach(root, keys, i) ==
    IF i = 0 THEN root
    ELSE LET parent == Reach(root, keys, i - 1)
         IN  IF parent.t = "dict" /\ keys[i] \in DOMAIN parent.d
             THEN parent.d[keys[i]]
             ELSE Missing
\* The keys joined by dots.
RECURSIVE JoinDot(_)
JoinDot(keys) ==
    IF Len(keys) = 1 THEN keys[1] ELSE keys[1] \o <<".">> \o JoinDot(Tail(keys))
C18_Lookup ==
    nested # NoLookup =>
        LET keys == nested.keys
        IN  /\ keys # <<>> /\ JoinDot(keys) = nested.path
            /\ \A k \in DOMAIN keys : \A c \in DOMAIN keys[k] : keys[k][c] # "."
            /\ nested.result =
                  IF \E i \in DOMAIN keys : Reach(helper_config, keys, i) = Missing
                  THEN nested.default_value
                  ELSE Reach(helper_config, keys, Len(keys))
C18_Step == helper_config' = helper_config

\* C18: get_nested walks the dot-separated segments of the path from the root
\* and returns the default at the first segment that is missing or whose
\* parent is no mapping, otherwise the value the last segment reaches; the
\* configuration is left as it was.
C18_GetNested == []C18_Lookup /\ [][C18_Step]_vars

\* The lookup of a.b.c met the string at a.b and returned the default.
C18_Witness ==
    /\ nested.path = <<"a", ".", "b", ".", "c">>
    /\ Reach(helper_config, nested.keys, 2) = Str("x")
    /\ nested.default_value = Str("dflt") /\ nested.result = Str("dflt")

---------------------------------------------------------------------------
(* C19 *)

\* C19: the signal handlers are active only once the readiness frame has been
\* written, so every stop() comes after start() has returned normally.
C19_TriggersAfterReady ==
    /\ installed => FramesTagged("KENNEL_PLUGIN_READY") # <<>>
    /\ StopCalls > 0 => (startup = "started" /\ Calls("start") = 1)

---------------------------------------------------------------------------
(* C20 *)

\* C20: an I/O failure of the read ends the run as the end of the input does:
\* from either, the loop ends and the process exits with status 0, stop()
\* executed exactly once and no KENNEL_PLUGIN_ERROR frame written.
C20_ReadFailureAsEof ==
    (stdin \in {"eof", "error"} /\ startup = "started")
        ~> /\ pc = "exited" /\ exitCode = 0
           /\ StopCalls = 1
           /\ FramesTagged("KENNEL_PLUGIN_ERROR") = <<>>

---------------------------------------------------------------------------
(* C21 *)

\* C21: a process whose module's start() returned normally does not exit
\* before stop() has been invoked, whatever ends the run.
C21_StopBeforeExit ==
    (pc = "exited" /\ startup = "started") => StopCalls >= 1

---------------------------------------------------------------------------
(* C22 *)

\* C22: a KENNEL_COMMAND line never has two frames written for it, and once
\* handle_command has returned for it exactly one: the response frame of its
\* kind when the dispatch succeeded, a KENNEL_ERROR frame otherwise.
C22_OneFramePerCommand ==
    /\ \A n \in 1..nread : Len(FramesFor(n)) <= 1
    /\ Dispatched =>
          /\ Len(FramesFor(nread)) = 1
          /\ last.cmd = nread
          /\ last.tag =
                IF err # <<>> THEN "KENNEL_ERROR"
                ELSE IF call.op = "handle_request" THEN "KENNEL_RESPONSE"
                ELSE IF call.op = "handle_event" THEN "KENNEL_EVENT_RESPONSE"
                ELSE "KENNEL_HEALTH_RESPONSE"
          /\ err = <<>> => (call.op # "none" /\ res.kind = "return")

\* A response that json.dumps could not encode was answered by the error
\* frame alone.
C22_Witness ==
    /\ Dispatched /\ nread = 1 /\ call.op = "handle_request"
    /\ res.kind = "return" /\ ~res.value.serializable
    /\ out = <<[tag |-> "KENNEL_PLUGIN_READY", cmd |-> 0],
               [tag |-> "KENNEL_ERROR", cmd |-> 1]>>

---------------------------------------------------------------------------
(* C23 *)

C23_Step == out' # out => StopCalls = 0 /\ StopCalls' = 0

\* C23: no frame is written once the first stop() has been invoked, and every
\* frame in the output was written while no stop() had been invoked.
C23_SilentAfterStop == [][C23_Step]_vars

\* A signal arrived while the first command was being dispatched: stop() ran
\* and the process ended with the readiness frame as its only output.
C23_Witness ==
    /\ pc = "exited" /\ nsig >= 1 /\ StopCalls >= 1
    /\ nread = 1 /\ cur.tag = "KENNEL_COMMAND:" /\ call.op # "none"
    /\ out = <<[tag |-> "KENNEL_PLUGIN_READY", cmd |-> 0]>>

---------------------------------------------------------------------------
(* C24 *)

C24_Absorbed == (stopRaised /\ pc = "exited") => exitCode = 0
C24_Step == stopRaised => (out' = out /\ StopCalls' = StopCalls)

\* C24: an exception raised by stop() is absorbed: no frame of any kind is
\* written after it, stop() is not invoked again after it, and the process
\* exits with status 0.
C24_StopFailureAbsorbed == []C24_Absorbed /\ [][C24_Step]_vars

====
